---- MODULE Spec2Model ----
(***************************************************************************)
(* AutoPaySystem: a registry of payment rules with an encrypted threshold, *)
(* a registry of subscriptions bound to rules, and executePayment, which   *)
(* records a payment once the decryption oracle's proof for the rule's     *)
(* ciphertext handle verifies and the clear value meets publicThreshold.   *)
(* Every transaction is one atomic step (the ledger serialises them); a    *)
(* reverted transaction leaves the storage as it was. The web client's     *)
(* handlers and timers are modelled beside the contract, await by await.   *)
(***************************************************************************)
EXTENDS Integers, Sequences, FiniteSets, Bags, TLC

VARIABLES
    paymentRules,       \* mapping(string => PaymentRule)
    subscriptions,      \* mapping(string => Subscription)
    ruleSubscriptions,  \* mapping(string => string[])
    ruleIds,            \* string[]
    subscriptionIds,    \* string[]
    events,             \* the contract's event log, oldest first
    acl,                \* the ciphertext engine's permissions on handles
    now,                \* block.timestamp of the block being built
    last,               \* the transaction just executed, until its receipt is
                        \* returned: function, sender, arguments, revert reason
                        \* or "ok", and how far executePayment got; else Idle
    ui                  \* the web client: the state of the App component and
                        \* the await its createPayment handler is suspended at

storage == <<paymentRules, subscriptions, ruleSubscriptions, ruleIds,
             subscriptionIds, events, acl>>
\* The ledger, as opposed to the web client.
chain == <<paymentRules, subscriptions, ruleSubscriptions, ruleIds,
           subscriptionIds, events, acl, now, last>>
vars == <<paymentRules, subscriptions, ruleSubscriptions, ruleIds,
          subscriptionIds, events, acl, now, last, ui>>

---------------------------------------------------------------------------
\* Bounds of the model.

\* The event log holds at most MaxEvents events, and at most MaxRepeatEvents
\* where one rule and one subscription are followed through repeated payments.
MaxEvents == 3
MaxRepeatEvents == 4
\* Block timestamps run from 1 to MaxTime.
MaxTime == 2

\* The strings used as rule ids and as subscription ids; "" is the empty string.
RuleIdStrings == {"", "r1"}
SubscriptionIdStrings == {"", "s1"}

\* Externally owned accounts that send transactions; address(0) sends none.
Accounts == {"A", "B"}
ZeroAddress == "0x0"
\* createSubscription and executePayment never read msg.sender: one account
\* submits them, while every account is offered as the subscriber.
Relayers == {"A"}
Recipients == {"C"}
Descriptions == {"rent"}

\* Unsigned integers of the contract (uint32, uint256) are written in base
\* 2^16 as [hi, lo], value hi * 2^16 + lo with lo < 2^16, so that 2^32 and its
\* neighbours are exact.
Limb == 256 * 256
Word(hi, lo) == [hi |-> hi, lo |-> lo]
\* a >= b on such numbers
Geq(a, b) == a.hi > b.hi \/ (a.hi = b.hi /\ a.lo >= b.lo)
Zero == Word(0, 0)
\* type(uint32).max = 2^32 - 1
Uint32Max == Word(Limb - 1, Limb - 1)

\* Values of publicThreshold offered at creation.
Thresholds == {Word(0, 100)}

---------------------------------------------------------------------------
\* Solidity helpers.

\* bytes(s).length for the strings of the model.
BytesLength(s) == IF s = "" THEN 0 ELSE 2

\* The elements of an array.
Range(seq) == {seq[i] : i \in 1..Len(seq)}

\* The value a mapping returns for a key never written.
DefaultPaymentRule ==
    [ruleId |-> "", encryptedThreshold |-> 0, publicThreshold |-> Zero,
     recipient |-> ZeroAddress, description |-> "", creator |-> ZeroAddress,
     timestamp |-> 0, isActive |-> FALSE]

DefaultSubscription ==
    [subscriptionId |-> "", ruleId |-> "", subscriber |-> ZeroAddress,
     lastPaymentTimestamp |-> 0, isActive |-> FALSE]

---------------------------------------------------------------------------
\* The ciphertext engine and the decryption oracle (external collaborators).

\* Ciphertext handles; 0 is the uninitialised handle.
Handles == {1, 2}

\* The plaintext each ciphertext encrypts, known to the oracle only: one just
\* below the offered threshold and one equal to it.
Plain(h) == IF h = 1 THEN Word(0, 99) ELSE Word(0, 100)

\* What a caller can pass as (externalEuint32, inputProof): a handle with a
\* proof that verifies, the zero handle, or a handle with a bad proof.
ExternalInputs ==
    {[handle |-> h, proofOk |-> TRUE] : h \in Handles \cup {0}}
        \cup {[handle |-> 1, proofOk |-> FALSE]}

\* FHE.fromExternal reverts when the input proof does not verify.
FromExternalReverts(ext) == ~ext.proofOk
FromExternal(ext) == ext.handle
\* FHE.isInitialized
IsInitialized(h) == h # 0
\* FHE.toBytes32
ToBytes32(h) == h

\* A decryption proof: who signed it, and for which handle. The oracle signs
\* only the true plaintext of a handle; a forged proof carries another key's
\* signature (here over handle 2 and its plaintext).
DecryptionProofs ==
    [signer : {"kms"}, handle : Handles] \cup {[signer |-> "forged", handle |-> 2]}

\* The arguments offered to createPaymentRule besides the id: a ciphertext
\* input, publicThreshold, recipient and description.
RuleInputs ==
    [ext : ExternalInputs, publicThreshold : Thresholds,
     recipient : Recipients, description : Descriptions]

\* The ABI encodings a caller can claim as the clear value (32-byte words).
ClearEncodings == {Word(0, 99), Word(0, 100)}

\* FHE.checkSignatures: the proof is the oracle's signature over exactly these
\* handles and this clear-value encoding.
CheckSignatures(cts, abiEncodedClearValue, decryptionProof) ==
    /\ decryptionProof.signer = "kms"
    /\ cts = <<decryptionProof.handle>>
    /\ abiEncodedClearValue = Plain(decryptionProof.handle)

\* abi.decode(bytes, (uint32)) reverts on a word outside the uint32 range.
AbiDecodeReverts(word) == ~Geq(Uint32Max, word)
AbiDecodeUint32(word) == word

---------------------------------------------------------------------------
\* Revert reasons.

ErrRuleExists == "Rule already exists"
ErrInvalidInput == "Invalid encrypted input"
ErrFromExternal == "FHE.fromExternal reverted"
ErrSubscriptionExists == "Subscription already exists"
ErrNoRule == "Rule does not exist"
ErrRuleInactive == "Rule is not active"
ErrNoSubscription == "Subscription does not exist"
ErrSubscriptionInactive == "Subscription is not active"
ErrCheckSignatures == "FHE.checkSignatures reverted"
ErrAbiDecode == "abi.decode reverted"
ErrThreshold == "Threshold not met"
ErrOnlyCreator == "Only creator can disable rule"
ErrOnlySubscriber == "Only subscriber can disable subscription"
Ok == "ok"

\* The specification's error taxonomy.
DuplicateId == {ErrRuleExists, ErrSubscriptionExists}
NotFound == {ErrNoRule, ErrNoSubscription}
Unauthorized == {ErrOnlyCreator, ErrOnlySubscriber}
InactiveEntity == {ErrRuleInactive, ErrSubscriptionInactive}
InvalidCiphertext == {ErrFromExternal, ErrInvalidInput}
InvalidProof == {ErrCheckSignatures, ErrAbiDecode}
ThresholdNotMet == {ErrThreshold}

\* A contract whose threshold check returns early instead of reverting.
RevertsUnlessThreshold(reason) == reason \notin {Ok, ErrThreshold}

\* A failed require, or a revert inside a call, aborts the transaction: none
\* of its writes is kept.
Reverts(reason) == reason # Ok

\* How a transaction ended: its revert reason or Ok, and whether it called the
\* verifier and compared the value with the threshold.
Outcome(reason, verifierCalled, compared) ==
    [reason |-> reason, verifierCalled |-> verifierCalled, compared |-> compared]

\* The record of a transaction: the function, msg.sender, the arguments, the
\* outcome, and the storage the transaction found.
Receipt(op, sender, args, outcome) ==
    [op |-> op, sender |-> sender, args |-> args, reason |-> outcome.reason,
     verifierCalled |-> outcome.verifierCalled, compared |-> outcome.compared,
     before |-> storage]

\* No transaction is being reported.
Idle == [op |-> "none"]

---------------------------------------------------------------------------
\* Events.

PaymentRuleCreated(ruleId, creator) ==
    [name |-> "PaymentRuleCreated", ruleId |-> ruleId, creator |-> creator]
SubscriptionCreated(subscriptionId, ruleId, subscriber) ==
    [name |-> "SubscriptionCreated", subscriptionId |-> subscriptionId,
     ruleId |-> ruleId, subscriber |-> subscriber]
PaymentExecuted(subscriptionId, ruleId, recipient) ==
    [name |-> "PaymentExecuted", subscriptionId |-> subscriptionId,
     ruleId |-> ruleId, recipient |-> recipient]

---------------------------------------------------------------------------
\* The web client (App.tsx): the values of the App component's state.

\* useState of newPaymentData, and the values the inputs of the form are
\* given: the name and the amount empty or filled, the frequency one of two
\* options of its select, the threshold and the description as mounted.
NewPaymentDataInitial ==
    [name |-> "", amount |-> "", frequency |-> "7", threshold |-> "1",
     description |-> ""]
NewPaymentDataFields == {"name", "amount", "frequency", "threshold", "description"}
FieldValues(field) ==
    CASE field = "name" -> {"", "rent"}
      [] field = "amount" -> {"", "100"}
      [] field = "frequency" -> {"7", "30"}
      [] field = "threshold" -> {"1"}
      [] field = "description" -> {""}
NewPaymentDataValues ==
    [name : FieldValues("name"), amount : FieldValues("amount"),
     frequency : FieldValues("frequency"), threshold : FieldValues("threshold"),
     description : FieldValues("description")]

\* useState of transactionStatus.
TransactionStatus(visible, status, message) ==
    [visible |-> visible, status |-> status, message |-> message]
TransactionStatusInitial == TransactionStatus(FALSE, "pending", "")

\* The status showTransactionStatus sets.
Shown(status, message) == TransactionStatus(TRUE, status, message)

\* The status the timer of showTransactionStatus sets:
\* {...transactionStatus, visible: false}, transactionStatus being the value
\* in the closure of the handler that set the timer.
Hidden(transactionStatus) == [transactionStatus EXCEPT !.visible = FALSE]

MsgConnectWallet == "Please connect wallet first"
MsgCreating == "Creating encrypted payment condition..."
MsgWaiting == "Waiting for confirmation..."
MsgCreated == "Payment condition created!"
MsgRejected == "Transaction rejected"
MsgFailed == "Creation failed"
MsgAlreadyVerified == "Data already verified"
MsgVerifying == "Verifying decryption..."
MsgVerified == "Data verified successfully!"
MsgDecryptionFailed == "Decryption failed"
MsgAvailable == "Contract is available"

\* The promises createPayment awaits, in order.
Awaits == {"getContractWithSigner", "getAddress", "encrypt", "createBusinessData", "wait"}

\* What a throw hands to the catch block of createPayment: an error whose
\* message includes "rejected", an error of another message or of none, or a
\* value whose message cannot be read or searched (null, undefined, a message
\* that is not a string).
Thrown == {"rejected", "failed", "unreadable"}

\* How an awaited promise settles: it resolves and createPayment reaches its
\* next await or its end; it resolves to no contract (getContractWithSigner
\* only); it rejects; or it resolves to a transaction whose wait() throws
\* before there is a promise to await (createBusinessData only: a value
\* without wait() gives the error "... is not a function").
AwaitResults(awaited) ==
    {"resolved"} \cup Thrown
        \cup (IF awaited = "getContractWithSigner" THEN {"null"} ELSE {})
        \cup (IF awaited = "createBusinessData"
              THEN {"waitRejected", "waitFailed", "waitUnreadable"} ELSE {})

\* What the catch block is handed in each of these.
Caught(result) ==
    CASE result = "waitRejected" -> "rejected"
      [] result = "waitFailed" -> "failed"
      [] result = "waitUnreadable" -> "unreadable"
      [] result = "null" -> "failed"
      [] OTHER -> result

\* useState of selectedPayment: no payment, or a payment of the list. What
\* the payment holds was read from the contract; the detail modal reads its
\* isVerified, an input of the click there.
NoPayment == "null"
SelectedPaymentValues == {NoPayment, "payment"}

\* How a decryptPayment call past its connection check ends. DecryptShown is
\* how far its try block came in showing a status: nothing, "Data already
\* verified", "Verifying decryption...", or that and "Data verified
\* successfully!". DecryptEnds is what ended the try block: a return, or a
\* throw of an error whose message includes "already verified", of another
\* error, or of a value whose message cannot be read. After "Verifying
\* decryption..." the try block returns only past the second status.
DecryptShown == {"none", "alreadyVerified", "verifying", "verified"}
DecryptEnds == {"return", "alreadyVerified", "failed", "unreadable"}
DecryptResults ==
    [shown : DecryptShown, end : DecryptEnds]
        \ {[shown |-> "verifying", end |-> "return"]}

\* The component as mounted: no handler is running and no timer is set. What
\* the hooks report at a render (useAccount: isConnected and address,
\* useEncrypt: isEncrypting, useDecrypt: isDecrypting) is an input of the
\* handler run from that render.
UiInitial ==
    [showCreateModal |-> FALSE, creatingPayment |-> FALSE,
     transactionStatus |-> TransactionStatusInitial,
     newPaymentData |-> NewPaymentDataInitial,
     selectedPayment |-> NoPayment,
     awaiting |-> "none", closure |-> TransactionStatusInitial,
     calls |-> EmptyBag, timers |-> <<>>, reloading |-> FALSE]

---------------------------------------------------------------------------
Init ==
    /\ paymentRules = [id \in RuleIdStrings |-> DefaultPaymentRule]
    /\ subscriptions = [id \in SubscriptionIdStrings |-> DefaultSubscription]
    /\ ruleSubscriptions = [id \in RuleIdStrings |-> <<>>]
    /\ ruleIds = <<>>
    /\ subscriptionIds = <<>>
    /\ events = <<>>
    /\ acl = [allowedThis |-> {}, publiclyDecryptable |-> {}]
    /\ now = 1
    /\ last = Idle
    /\ ui = UiInitial

\* A new block: block.timestamp grows.
NewBlock ==
    /\ last = Idle
    /\ now < MaxTime
    /\ now' = now + 1
    /\ UNCHANGED <<storage, last>>

\* The receipt of the transaction is returned; the ledger takes up the next.
Return ==
    /\ last # Idle
    /\ last' = Idle
    /\ UNCHANGED <<storage, now>>

---------------------------------------------------------------------------
\* createPaymentRule

\* createPaymentRule without its check that the id is free.
CreatePaymentRuleReasonAnyId(ruleId, ext) ==
    IF FromExternalReverts(ext) THEN ErrFromExternal
    ELSE IF ~IsInitialized(FromExternal(ext)) THEN ErrInvalidInput
    ELSE Ok

CreatePaymentRuleReason(ruleId, ext) ==
    IF ~(BytesLength(paymentRules[ruleId].ruleId) = 0) THEN ErrRuleExists
    ELSE IF FromExternalReverts(ext) THEN ErrFromExternal
    ELSE IF ~IsInitialized(FromExternal(ext)) THEN ErrInvalidInput
    ELSE Ok

\* createPaymentRule without its call of FHE.makePubliclyDecryptable.
CreatePaymentRuleEffectPrivate(sender, ruleId, ext, publicThreshold, recipient, description) ==
    /\ paymentRules' = [paymentRules EXCEPT ![ruleId] =
           [ruleId |-> ruleId,
            encryptedThreshold |-> FromExternal(ext),
            publicThreshold |-> publicThreshold,
            recipient |-> recipient,
            description |-> description,
            creator |-> sender,
            timestamp |-> now,
            isActive |-> TRUE]]
    /\ acl' = [allowedThis |-> acl.allowedThis \cup {FromExternal(ext)},
               publiclyDecryptable |-> acl.publiclyDecryptable]
    /\ ruleIds' = Append(ruleIds, ruleId)
    /\ events' = Append(events, PaymentRuleCreated(ruleId, sender))
    /\ UNCHANGED <<subscriptions, ruleSubscriptions, subscriptionIds>>

CreatePaymentRuleEffect(sender, ruleId, ext, publicThreshold, recipient, description) ==
    /\ paymentRules' = [paymentRules EXCEPT ![ruleId] =
           [ruleId |-> ruleId,
            encryptedThreshold |-> FromExternal(ext),
            publicThreshold |-> publicThreshold,
            recipient |-> recipient,
            description |-> description,
            creator |-> sender,
            timestamp |-> now,
            isActive |-> TRUE]]
    /\ acl' = [allowedThis |-> acl.allowedThis \cup {FromExternal(ext)},
               publiclyDecryptable |-> acl.publiclyDecryptable \cup {FromExternal(ext)}]
    /\ ruleIds' = Append(ruleIds, ruleId)
    /\ events' = Append(events, PaymentRuleCreated(ruleId, sender))
    /\ UNCHANGED <<subscriptions, ruleSubscriptions, subscriptionIds>>

createPaymentRule(sender, ruleId, ext, publicThreshold, recipient, description) ==
    LET reason == CreatePaymentRuleReason(ruleId, ext) IN
    /\ last = Idle
    /\ last' = Receipt("createPaymentRule", sender,
                       [ruleId |-> ruleId, ext |-> ext,
                        publicThreshold |-> publicThreshold,
                        recipient |-> recipient, description |-> description],
                       Outcome(reason, FALSE, FALSE))
    /\ IF ~Reverts(reason)
       THEN CreatePaymentRuleEffect(sender, ruleId, ext, publicThreshold,
                                    recipient, description)
       ELSE UNCHANGED storage
    /\ UNCHANGED now

---------------------------------------------------------------------------
\* createSubscription

\* createSubscription without its checks on the rule.
CreateSubscriptionReasonNoRule(subscriptionId, ruleId) ==
    IF ~(BytesLength(subscriptions[subscriptionId].subscriptionId) = 0)
    THEN ErrSubscriptionExists
    ELSE Ok

\* createSubscription without its check that the rule is active.
CreateSubscriptionReasonAnyRule(subscriptionId, ruleId) ==
    IF ~(BytesLength(subscriptions[subscriptionId].subscriptionId) = 0)
    THEN ErrSubscriptionExists
    ELSE IF ~(BytesLength(paymentRules[ruleId].ruleId) > 0) THEN ErrNoRule
    ELSE Ok

CreateSubscriptionReason(subscriptionId, ruleId) ==
    IF ~(BytesLength(subscriptions[subscriptionId].subscriptionId) = 0)
    THEN ErrSubscriptionExists
    ELSE IF ~(BytesLength(paymentRules[ruleId].ruleId) > 0) THEN ErrNoRule
    ELSE IF ~paymentRules[ruleId].isActive THEN ErrRuleInactive
    ELSE Ok

\* createSubscription without its push onto the rule's index.
CreateSubscriptionEffectUnindexed(subscriptionId, ruleId, subscriber) ==
    /\ subscriptions' = [subscriptions EXCEPT ![subscriptionId] =
           [subscriptionId |-> subscriptionId,
            ruleId |-> ruleId,
            subscriber |-> subscriber,
            lastPaymentTimestamp |-> 0,
            isActive |-> TRUE]]
    /\ subscriptionIds' = Append(subscriptionIds, subscriptionId)
    /\ events' = Append(events, SubscriptionCreated(subscriptionId, ruleId, subscriber))
    /\ UNCHANGED <<paymentRules, ruleSubscriptions, ruleIds, acl>>

CreateSubscriptionEffect(subscriptionId, ruleId, subscriber) ==
    /\ subscriptions' = [subscriptions EXCEPT ![subscriptionId] =
           [subscriptionId |-> subscriptionId,
            ruleId |-> ruleId,
            subscriber |-> subscriber,
            lastPaymentTimestamp |-> 0,
            isActive |-> TRUE]]
    /\ ruleSubscriptions' = [ruleSubscriptions EXCEPT ![ruleId] =
           Append(ruleSubscriptions[ruleId], subscriptionId)]
    /\ subscriptionIds' = Append(subscriptionIds, subscriptionId)
    /\ events' = Append(events, SubscriptionCreated(subscriptionId, ruleId, subscriber))
    /\ UNCHANGED <<paymentRules, ruleIds, acl>>

\* createSubscription storing msg.sender as the subscriber.
createSubscriptionSelfBound(sender, subscriptionId, ruleId, subscriber) ==
    LET reason == CreateSubscriptionReason(subscriptionId, ruleId) IN
    /\ last = Idle
    /\ last' = Receipt("createSubscription", sender,
                       [subscriptionId |-> subscriptionId, ruleId |-> ruleId,
                        subscriber |-> subscriber],
                       Outcome(reason, FALSE, FALSE))
    /\ IF ~Reverts(reason)
       THEN CreateSubscriptionEffect(subscriptionId, ruleId, sender)
       ELSE UNCHANGED storage
    /\ UNCHANGED now

createSubscription(sender, subscriptionId, ruleId, subscriber) ==
    LET reason == CreateSubscriptionReason(subscriptionId, ruleId) IN
    /\ last = Idle
    /\ last' = Receipt("createSubscription", sender,
                       [subscriptionId |-> subscriptionId, ruleId |-> ruleId,
                        subscriber |-> subscriber],
                       Outcome(reason, FALSE, FALSE))
    /\ IF ~Reverts(reason)
       THEN CreateSubscriptionEffect(subscriptionId, ruleId, subscriber)
       ELSE UNCHANGED storage
    /\ UNCHANGED now

---------------------------------------------------------------------------
\* executePayment

\* The rule executePayment reads: PaymentRule storage rule = paymentRules[...]
RuleOf(subscriptionId) == paymentRules[subscriptions[subscriptionId].ruleId]

\* The handle list handed to the verifier.
Cts(subscriptionId) == <<ToBytes32(RuleOf(subscriptionId).encryptedThreshold)>>

\* decodedValue >= rule.publicThreshold
ThresholdMet(decodedValue, publicThreshold) == Geq(decodedValue, publicThreshold)

\* executePayment without its call of FHE.checkSignatures.
ExecutePaymentOutcomeUnverified(subscriptionId, abiEncodedClearValue, decryptionProof) ==
    IF ~(BytesLength(subscriptions[subscriptionId].subscriptionId) > 0)
    THEN Outcome(ErrNoSubscription, FALSE, FALSE)
    ELSE IF ~subscriptions[subscriptionId].isActive
    THEN Outcome(ErrSubscriptionInactive, FALSE, FALSE)
    ELSE IF ~RuleOf(subscriptionId).isActive
    THEN Outcome(ErrRuleInactive, FALSE, FALSE)
    ELSE IF AbiDecodeReverts(abiEncodedClearValue)
    THEN Outcome(ErrAbiDecode, FALSE, FALSE)
    ELSE IF ~ThresholdMet(AbiDecodeUint32(abiEncodedClearValue),
                          RuleOf(subscriptionId).publicThreshold)
    THEN Outcome(ErrThreshold, FALSE, TRUE)
    ELSE Outcome(Ok, FALSE, TRUE)

\* executePayment without its check that the subscription is active.
ExecutePaymentOutcomeAnySubscription(subscriptionId, abiEncodedClearValue, decryptionProof) ==
    IF ~(BytesLength(subscriptions[subscriptionId].subscriptionId) > 0)
    THEN Outcome(ErrNoSubscription, FALSE, FALSE)
    ELSE IF ~RuleOf(subscriptionId).isActive
    THEN Outcome(ErrRuleInactive, FALSE, FALSE)
    ELSE IF ~CheckSignatures(Cts(subscriptionId), abiEncodedClearValue, decryptionProof)
    THEN Outcome(ErrCheckSignatures, TRUE, FALSE)
    ELSE IF AbiDecodeReverts(abiEncodedClearValue)
    THEN Outcome(ErrAbiDecode, TRUE, FALSE)
    ELSE IF ~ThresholdMet(AbiDecodeUint32(abiEncodedClearValue),
                          RuleOf(subscriptionId).publicThreshold)
    THEN Outcome(ErrThreshold, TRUE, TRUE)
    ELSE Outcome(Ok, TRUE, TRUE)

\* executePayment refusing a subscription already paid in this block.
ExecutePaymentOutcomeOncePerBlock(subscriptionId, abiEncodedClearValue, decryptionProof) ==
    IF ~(BytesLength(subscriptions[subscriptionId].subscriptionId) > 0)
    THEN Outcome(ErrNoSubscription, FALSE, FALSE)
    ELSE IF ~subscriptions[subscriptionId].isActive
    THEN Outcome(ErrSubscriptionInactive, FALSE, FALSE)
    ELSE IF ~RuleOf(subscriptionId).isActive
    THEN Outcome(ErrRuleInactive, FALSE, FALSE)
    ELSE IF subscriptions[subscriptionId].lastPaymentTimestamp = now
    THEN Outcome(ErrSubscriptionInactive, FALSE, FALSE)
    ELSE IF ~CheckSignatures(Cts(subscriptionId), abiEncodedClearValue, decryptionProof)
    THEN Outcome(ErrCheckSignatures, TRUE, FALSE)
    ELSE IF AbiDecodeReverts(abiEncodedClearValue)
    THEN Outcome(ErrAbiDecode, TRUE, FALSE)
    ELSE IF ~ThresholdMet(AbiDecodeUint32(abiEncodedClearValue),
                          RuleOf(subscriptionId).publicThreshold)
    THEN Outcome(ErrThreshold, TRUE, TRUE)
    ELSE Outcome(Ok, TRUE, TRUE)

\* The first failing check, and whether the verifier and the comparison ran.
ExecutePaymentOutcome(subscriptionId, abiEncodedClearValue, decryptionProof) ==
    IF ~(BytesLength(subscriptions[subscriptionId].subscriptionId) > 0)
    THEN Outcome(ErrNoSubscription, FALSE, FALSE)
    ELSE IF ~subscriptions[subscriptionId].isActive
    THEN Outcome(ErrSubscriptionInactive, FALSE, FALSE)
    ELSE IF ~RuleOf(subscriptionId).isActive
    THEN Outcome(ErrRuleInactive, FALSE, FALSE)
    ELSE IF ~CheckSignatures(Cts(subscriptionId), abiEncodedClearValue, decryptionProof)
    THEN Outcome(ErrCheckSignatures, TRUE, FALSE)
    ELSE IF AbiDecodeReverts(abiEncodedClearValue)
    THEN Outcome(ErrAbiDecode, TRUE, FALSE)
    ELSE IF ~ThresholdMet(AbiDecodeUint32(abiEncodedClearValue),
                          RuleOf(subscriptionId).publicThreshold)
    THEN Outcome(ErrThreshold, TRUE, TRUE)
    ELSE Outcome(Ok, TRUE, TRUE)

\* executePayment recording the rule's creation time instead of the block's.
ExecutePaymentEffectStale(subscriptionId) ==
    /\ subscriptions' = [subscriptions EXCEPT
           ![subscriptionId].lastPaymentTimestamp = RuleOf(subscriptionId).timestamp]
    /\ events' = Append(events,
           PaymentExecuted(subscriptionId, RuleOf(subscriptionId).ruleId,
                           RuleOf(subscriptionId).recipient))
    /\ UNCHANGED <<paymentRules, ruleSubscriptions, ruleIds, subscriptionIds, acl>>

ExecutePaymentEffect(subscriptionId) ==
    /\ subscriptions' = [subscriptions EXCEPT
           ![subscriptionId].lastPaymentTimestamp = now]
    /\ events' = Append(events,
           PaymentExecuted(subscriptionId, RuleOf(subscriptionId).ruleId,
                           RuleOf(subscriptionId).recipient))
    /\ UNCHANGED <<paymentRules, ruleSubscriptions, ruleIds, subscriptionIds, acl>>

executePayment(sender, subscriptionId, abiEncodedClearValue, decryptionProof) ==
    LET outcome == ExecutePaymentOutcome(subscriptionId, abiEncodedClearValue,
                                         decryptionProof) IN
    /\ last = Idle
    /\ last' = Receipt("executePayment", sender,
                       [subscriptionId |-> subscriptionId,
                        abiEncodedClearValue |-> abiEncodedClearValue,
                        decryptionProof |-> decryptionProof],
                       outcome)
    /\ IF ~Reverts(outcome.reason)
       THEN ExecutePaymentEffect(subscriptionId)
       ELSE UNCHANGED storage
    /\ UNCHANGED now

---------------------------------------------------------------------------
\* disableRule, disableSubscription

\* disableRule refusing a rule that is already inactive.
DisableRuleReasonOnce(sender, ruleId) ==
    IF ~(BytesLength(paymentRules[ruleId].ruleId) > 0) THEN ErrNoRule
    ELSE IF ~(sender = paymentRules[ruleId].creator) THEN ErrOnlyCreator
    ELSE IF ~paymentRules[ruleId].isActive THEN ErrRuleInactive
    ELSE Ok

DisableRuleReason(sender, ruleId) ==
    IF ~(BytesLength(paymentRules[ruleId].ruleId) > 0) THEN ErrNoRule
    ELSE IF ~(sender = paymentRules[ruleId].creator) THEN ErrOnlyCreator
    ELSE Ok

\* disableRule deactivating the subscriptions of the rule as well.
disableRuleCascading(sender, ruleId) ==
    LET reason == DisableRuleReason(sender, ruleId) IN
    /\ last = Idle
    /\ last' = Receipt("disableRule", sender, [ruleId |-> ruleId],
                       Outcome(reason, FALSE, FALSE))
    /\ IF ~Reverts(reason)
       THEN /\ paymentRules' = [paymentRules EXCEPT ![ruleId].isActive = FALSE]
            /\ subscriptions' = [id \in SubscriptionIdStrings |->
                   IF subscriptions[id].ruleId = ruleId
                   THEN [subscriptions[id] EXCEPT !.isActive = FALSE]
                   ELSE subscriptions[id]]
            /\ UNCHANGED <<ruleSubscriptions, ruleIds, subscriptionIds, events, acl>>
       ELSE UNCHANGED storage
    /\ UNCHANGED now

disableRule(sender, ruleId) ==
    LET reason == DisableRuleReason(sender, ruleId) IN
    /\ last = Idle
    /\ last' = Receipt("disableRule", sender, [ruleId |-> ruleId],
                       Outcome(reason, FALSE, FALSE))
    /\ IF ~Reverts(reason)
       THEN /\ paymentRules' = [paymentRules EXCEPT ![ruleId].isActive = FALSE]
            /\ UNCHANGED <<subscriptions, ruleSubscriptions, ruleIds,
                           subscriptionIds, events, acl>>
       ELSE UNCHANGED storage
    /\ UNCHANGED now

DisableSubscriptionReason(sender, subscriptionId) ==
    IF ~(BytesLength(subscriptions[subscriptionId].subscriptionId) > 0)
    THEN ErrNoSubscription
    ELSE IF ~(sender = subscriptions[subscriptionId].subscriber) THEN ErrOnlySubscriber
    ELSE Ok

disableSubscription(sender, subscriptionId) ==
    LET reason == DisableSubscriptionReason(sender, subscriptionId) IN
    /\ last = Idle
    /\ last' = Receipt("disableSubscription", sender,
                       [subscriptionId |-> subscriptionId],
                       Outcome(reason, FALSE, FALSE))
    /\ IF ~Reverts(reason)
       THEN /\ subscriptions' = [subscriptions EXCEPT ![subscriptionId].isActive = FALSE]
            /\ UNCHANGED <<paymentRules, ruleSubscriptions, ruleIds,
                           subscriptionIds, events, acl>>
       ELSE UNCHANGED storage
    /\ UNCHANGED now

---------------------------------------------------------------------------
\* The view functions; each returns its tuple or reverts.

getPaymentRule(ruleId) ==
    IF ~(BytesLength(paymentRules[ruleId].ruleId) > 0)
    THEN [reverted |-> TRUE, reason |-> ErrNoRule]
    ELSE [reverted |-> FALSE,
          ruleId |-> paymentRules[ruleId].ruleId,
          publicThreshold |-> paymentRules[ruleId].publicThreshold,
          recipient |-> paymentRules[ruleId].recipient,
          description |-> paymentRules[ruleId].description,
          creator |-> paymentRules[ruleId].creator,
          timestamp |-> paymentRules[ruleId].timestamp,
          isActive |-> paymentRules[ruleId].isActive]

getSubscription(subscriptionId) ==
    IF ~(BytesLength(subscriptions[subscriptionId].subscriptionId) > 0)
    THEN [reverted |-> TRUE, reason |-> ErrNoSubscription]
    ELSE [reverted |-> FALSE,
          subscriptionId |-> subscriptions[subscriptionId].subscriptionId,
          ruleId |-> subscriptions[subscriptionId].ruleId,
          subscriber |-> subscriptions[subscriptionId].subscriber,
          lastPaymentTimestamp |-> subscriptions[subscriptionId].lastPaymentTimestamp,
          isActive |-> subscriptions[subscriptionId].isActive]

getRuleSubscriptions(ruleId) ==
    IF ~(BytesLength(paymentRules[ruleId].ruleId) > 0)
    THEN [reverted |-> TRUE, reason |-> ErrNoRule]
    ELSE [reverted |-> FALSE, value |-> ruleSubscriptions[ruleId]]

getAllRuleIds == ruleIds

getAllSubscriptionIds == subscriptionIds

isAvailable == TRUE

---------------------------------------------------------------------------
\* Vocabulary of the properties. In a step that executes a transaction the
\* unprimed variables are the storage before it and last' is its record.

\* A createPaymentRule under this id has succeeded.
RuleCreated(ruleId) == ruleId \in Range(ruleIds)
\* A createSubscription under this id has succeeded.
SubscriptionCreated_(subscriptionId) == subscriptionId \in Range(subscriptionIds)

\* disableRule has succeeded on this rule.
RuleDisabled(ruleId) == RuleCreated(ruleId) /\ ~paymentRules[ruleId].isActive

\* The number of PaymentExecuted events in a log.
NumPayments(log) == Cardinality({i \in 1..Len(log) : log[i].name = "PaymentExecuted"})

\* The step records a payment: a PaymentExecuted event or a fresh non-zero
\* lastPaymentTimestamp.
PaymentRecorded ==
    \/ NumPayments(events') # NumPayments(events)
    \/ \E id \in SubscriptionIdStrings :
          /\ subscriptions'[id].lastPaymentTimestamp # subscriptions[id].lastPaymentTimestamp
          /\ subscriptions'[id].lastPaymentTimestamp # 0

\* The verifier accepts the transaction's proof and claimed value for the
\* handle of the rule of the transaction's subscription.
ProofAccepted(args) ==
    CheckSignatures(<<ToBytes32(RuleOf(args.subscriptionId).encryptedThreshold)>>,
                    args.abiEncodedClearValue, args.decryptionProof)

\* The subscription named by the transaction was created and is active, and so
\* is its rule.
LiveSubscription(subscriptionId) ==
    /\ SubscriptionCreated_(subscriptionId)
    /\ subscriptions[subscriptionId].isActive
    /\ RuleCreated(subscriptions[subscriptionId].ruleId)
    /\ RuleOf(subscriptionId).isActive

---------------------------------------------------------------------------
\* C1: a payment is recorded (a PaymentExecuted event, a non-zero
\* lastPaymentTimestamp) only by an executePayment transaction that found the
\* subscription created and active and its rule active, whose proof the
\* verifier accepted for the rule's handle, and whose verified value, the
\* plaintext of that handle, is at least the rule's publicThreshold; and the
\* comparison runs only on a value the verifier has accepted.
C1_PaymentOnlyOnVerifiedValue ==
    [][/\ PaymentRecorded =>
            /\ last'.op = "executePayment"
            /\ LiveSubscription(last'.args.subscriptionId)
            /\ ProofAccepted(last'.args)
            /\ last'.args.abiEncodedClearValue =
                   Plain(RuleOf(last'.args.subscriptionId).encryptedThreshold)
            /\ Geq(last'.args.abiEncodedClearValue,
                   RuleOf(last'.args.subscriptionId).publicThreshold)
       /\ (last'.op = "executePayment" /\ last'.compared) =>
            (last'.verifierCalled /\ ProofAccepted(last'.args))]_vars

\* A payment has just been executed and recorded.
C1_Witness ==
    /\ last.op = "executePayment"
    /\ last.reason = Ok
    /\ events[Len(events)] =
           PaymentExecuted(last.args.subscriptionId,
                           subscriptions[last.args.subscriptionId].ruleId, "C")
    /\ subscriptions[last.args.subscriptionId].lastPaymentTimestamp = now

---------------------------------------------------------------------------
\* The transaction being executed and its arguments, in a step.
Executes(op) == last'.op = op
Arg == last'.args

\* The transaction stores nothing of a subscription.
NoSubscriptionStored ==
    UNCHANGED <<subscriptions, subscriptionIds, ruleSubscriptions, events>>

\* The lookup executePayment, createSubscription and disableSubscription make:
\* the stored record has a non-empty subscriptionId.
SubscriptionFound(subscriptionId) ==
    BytesLength(subscriptions[subscriptionId].subscriptionId) > 0

\* C2 (as stated): for a created, active subscription on an active rule and a
\* proof the verifier accepts, executePayment fails ThresholdNotMet and leaves
\* lastPaymentTimestamp alone when the value is below publicThreshold, and
\* otherwise succeeds, sets lastPaymentTimestamp and emits PaymentExecuted.
C2_ThresholdDecides ==
    [][(/\ Executes("executePayment")
        /\ LiveSubscription(Arg.subscriptionId)
        /\ ProofAccepted(Arg)) =>
           IF ~Geq(Arg.abiEncodedClearValue, RuleOf(Arg.subscriptionId).publicThreshold)
           THEN /\ last'.reason \in ThresholdNotMet
                /\ UNCHANGED <<subscriptions, events>>
           ELSE /\ last'.reason = Ok
                /\ subscriptions'[Arg.subscriptionId].lastPaymentTimestamp = now
                /\ events' = Append(events,
                       PaymentExecuted(Arg.subscriptionId,
                                       subscriptions[Arg.subscriptionId].ruleId,
                                       RuleOf(Arg.subscriptionId).recipient))]_vars

\* C3 (as stated): executePayment on a created, active subscription of an
\* active rule with a proof the verifier rejects fails InvalidProof and
\* changes nothing, whatever value is claimed.
C3_RejectedProofFails ==
    [][(/\ Executes("executePayment")
        /\ LiveSubscription(Arg.subscriptionId)
        /\ ~ProofAccepted(Arg)) =>
           (last'.reason \in InvalidProof /\ UNCHANGED storage)]_vars

\* C4 (as stated): once disableRule has succeeded on a rule it stays disabled,
\* every executePayment for a subscription of that rule fails InactiveEntity
\* and every createSubscription on that rule fails InactiveEntity. Stated for
\* the createSubscription calls under an id that is not in use, which are the
\* ones the rule's state decides.
C4_DisabledRuleBlocks ==
    [][/\ \A r \in RuleIdStrings :
            (Executes("disableRule") /\ Arg.ruleId = r /\ last'.reason = Ok) =>
              RuleDisabled(r)'
       /\ \A r \in RuleIdStrings : RuleDisabled(r) =>
            /\ RuleDisabled(r)'
            /\ (/\ Executes("executePayment")
                /\ SubscriptionCreated_(Arg.subscriptionId)
                /\ subscriptions[Arg.subscriptionId].ruleId = r) =>
                   last'.reason \in InactiveEntity
            /\ (/\ Executes("createSubscription")
                /\ Arg.ruleId = r
                /\ ~SubscriptionCreated_(Arg.subscriptionId)) =>
                   last'.reason \in InactiveEntity]_vars

\* C5 (as stated): once createPaymentRule has succeeded under an id, the empty
\* string included, a later createPaymentRule under that id fails DuplicateId
\* and leaves the stored rule and the ruleIds list unchanged. Stated for the
\* calls that carry a ciphertext input the engine accepts, which are the ones
\* that would create a rule under a fresh id.
C5_RuleIdUnique ==
    [][(/\ Executes("createPaymentRule")
        /\ RuleCreated(Arg.ruleId)
        /\ ~FromExternalReverts(Arg.ext)
        /\ IsInitialized(FromExternal(Arg.ext))) =>
           /\ last'.reason \in DuplicateId
           /\ UNCHANGED <<paymentRules, ruleIds>>]_vars

\* C6 (as stated): once createSubscription has succeeded under an id, the
\* empty string included, a later createSubscription under that id fails
\* DuplicateId and leaves the stored subscription, the subscriptionIds list
\* and every rule's index unchanged. Stated for the calls that reference a
\* created, active rule, which are the ones that would create a subscription
\* under a fresh id.
C6_SubscriptionIdUnique ==
    [][(/\ Executes("createSubscription")
        /\ SubscriptionCreated_(Arg.subscriptionId)
        /\ RuleCreated(Arg.ruleId)
        /\ paymentRules[Arg.ruleId].isActive) =>
           /\ last'.reason \in DuplicateId
           /\ UNCHANGED <<subscriptions, subscriptionIds, ruleSubscriptions>>]_vars

\* C7 (as stated): disableRule on a created rule by an account other than its
\* stored creator fails Unauthorized and leaves isActive as it was; and a
\* created rule's isActive becomes false only in a successful disableRule sent
\* by its creator.
C7_OnlyCreatorDisables ==
    [][/\ (/\ Executes("disableRule")
           /\ RuleCreated(Arg.ruleId)
           /\ last'.sender # paymentRules[Arg.ruleId].creator) =>
              /\ last'.reason \in Unauthorized
              /\ paymentRules'[Arg.ruleId].isActive = paymentRules[Arg.ruleId].isActive
       /\ \A r \in RuleIdStrings :
            (RuleCreated(r) /\ paymentRules[r].isActive /\ ~paymentRules'[r].isActive) =>
              /\ Executes("disableRule")
              /\ Arg.ruleId = r
              /\ last'.sender = paymentRules[r].creator]_vars

\* C8 (as stated): disableSubscription on a created subscription by an account
\* other than its stored subscriber fails Unauthorized and leaves isActive as
\* it was; and a created subscription's isActive becomes false only in a
\* successful disableSubscription sent by its subscriber.
C8_OnlySubscriberDisables ==
    [][/\ (/\ Executes("disableSubscription")
           /\ SubscriptionCreated_(Arg.subscriptionId)
           /\ last'.sender # subscriptions[Arg.subscriptionId].subscriber) =>
              /\ last'.reason \in Unauthorized
              /\ subscriptions'[Arg.subscriptionId].isActive =
                     subscriptions[Arg.subscriptionId].isActive
       /\ \A id \in SubscriptionIdStrings :
            (/\ SubscriptionCreated_(id)
             /\ subscriptions[id].isActive
             /\ ~subscriptions'[id].isActive) =>
              /\ Executes("disableSubscription")
              /\ Arg.subscriptionId = id
              /\ last'.sender = subscriptions[id].subscriber]_vars

\* C9 (as stated): createSubscription referencing a ruleId under which no rule
\* was created fails NotFound, and referencing a disabled rule fails
\* InactiveEntity; in both cases no subscription is stored, listed or indexed
\* and no event is emitted.
C9_ReferentialValidity ==
    [][Executes("createSubscription") =>
        /\ ~RuleCreated(Arg.ruleId) =>
              (last'.reason \in NotFound /\ NoSubscriptionStored)
        /\ RuleDisabled(Arg.ruleId) =>
              (last'.reason \in InactiveEntity /\ NoSubscriptionStored)]_vars

\* C9 (amended): createSubscription referencing a ruleId under which no rule
\* was created fails NotFound, and referencing a disabled rule fails
\* InactiveEntity, unless the subscriptionId is a non-empty id already in use,
\* in which case it fails DuplicateId first; in all these cases no
\* subscription is stored, listed or indexed and no event is emitted.
C9_ReferentialValidityAmended ==
    [][Executes("createSubscription") =>
        /\ ~RuleCreated(Arg.ruleId) =>
              /\ last'.reason \in
                    (IF SubscriptionFound(Arg.subscriptionId)
                     THEN DuplicateId ELSE NotFound)
              /\ NoSubscriptionStored
        /\ RuleDisabled(Arg.ruleId) =>
              /\ last'.reason \in
                    (IF SubscriptionFound(Arg.subscriptionId)
                     THEN DuplicateId ELSE InactiveEntity)
              /\ NoSubscriptionStored]_vars

\* A createSubscription on a disabled rule has just failed with "Rule is not
\* active" and stored nothing.
C9_Witness ==
    /\ last.op = "createSubscription"
    /\ RuleDisabled(last.args.ruleId)
    /\ last.reason = ErrRuleInactive
    /\ subscriptions[last.args.subscriptionId] = DefaultSubscription

\* The PaymentRuleCreated events of the log, oldest first: one per successful
\* createPaymentRule.
IsPaymentRuleCreated(e) == e.name = "PaymentRuleCreated"
RuleCreations == SelectSeq(events, IsPaymentRuleCreated)
Distinct(seq) == \A i, j \in 1..Len(seq) : i # j => seq[i].ruleId # seq[j].ruleId

\* C10 (as stated): after successful createPaymentRule calls with pairwise
\* distinct ids, getAllRuleIds returns exactly those ids in insertion order,
\* and getPaymentRule succeeds for each and returns the rule created under it.
C10_EnumerationComplete ==
    Distinct(RuleCreations) =>
        /\ Len(getAllRuleIds) = Len(RuleCreations)
        /\ \A i \in 1..Len(RuleCreations) :
              /\ getAllRuleIds[i] = RuleCreations[i].ruleId
              /\ ~getPaymentRule(RuleCreations[i].ruleId).reverted
              /\ getPaymentRule(RuleCreations[i].ruleId).ruleId = RuleCreations[i].ruleId
              /\ getPaymentRule(RuleCreations[i].ruleId).creator = RuleCreations[i].creator

---------------------------------------------------------------------------
\* How many times an id occurs in a list.
Count(seq, x) == Cardinality({i \in 1..Len(seq) : seq[i] = x})

\* C11 (as stated): once createPaymentRule has stored a rule under an id, the
\* rule is created exactly once: in every later step the id stays listed once,
\* and the stored record keeps every field but isActive.
C11_RuleImmutable ==
    [][\A r \in RuleIdStrings : RuleCreated(r) =>
          /\ Count(ruleIds', r) = 1
          /\ paymentRules'[r] =
                [paymentRules[r] EXCEPT !.isActive = paymentRules'[r].isActive]]_vars

---------------------------------------------------------------------------
\* C12: a rule is active when createPaymentRule has stored it, and a created
\* rule whose isActive is false keeps it false through every transaction:
\* createPaymentRule, createSubscription, executePayment, disableRule and
\* disableSubscription.
C12_IsActiveMonotone ==
    [][/\ (Executes("createPaymentRule") /\ last'.reason = Ok) =>
              paymentRules'[Arg.ruleId].isActive
       /\ \A r \in RuleIdStrings :
              (RuleCreated(r) /\ ~paymentRules[r].isActive) =>
                  ~paymentRules'[r].isActive]_vars

\* The rule map and the subscription map the transaction just executed found.
RulesBefore == last.before[1]
SubscriptionsBefore == last.before[2]

\* A createPaymentRule with a valid ciphertext input has just been sent for
\* the id of a disabled rule; it failed and the rule is still inactive.
C12_Witness ==
    /\ last.op = "createPaymentRule"
    /\ IsInitialized(FromExternal(last.args.ext))
    /\ ~FromExternalReverts(last.args.ext)
    /\ RulesBefore[last.args.ruleId].ruleId = last.args.ruleId
    /\ ~RulesBefore[last.args.ruleId].isActive
    /\ last.reason = ErrRuleExists
    /\ ~paymentRules[last.args.ruleId].isActive

---------------------------------------------------------------------------
\* Every reason a mutating operation can fail with, by the taxonomy.
Failures ==
    DuplicateId \cup NotFound \cup Unauthorized \cup InactiveEntity
        \cup InvalidCiphertext \cup InvalidProof \cup ThresholdNotMet

\* C13: a createPaymentRule, createSubscription, executePayment, disableRule
\* or disableSubscription that fails with DuplicateId, NotFound, Unauthorized,
\* InactiveEntity, InvalidCiphertext, InvalidProof or ThresholdNotMet leaves
\* the rule map, the subscription map, the rule-to-subscriptions index, both
\* enumeration lists, the event log and the handle permissions as they were.
C13_FailureChangesNothing ==
    [][(last'.op # "none" /\ last'.reason \in Failures) =>
           UNCHANGED storage]_vars

\* An executePayment on a populated registry has just failed the threshold
\* check, after the verifier accepted its proof, and the storage is the one
\* it found.
C13_Witness ==
    /\ last.op = "executePayment"
    /\ last.reason = ErrThreshold
    /\ last.verifierCalled
    /\ Len(ruleIds) > 0 /\ Len(subscriptionIds) > 0
    /\ storage = last.before

---------------------------------------------------------------------------
\* C14: a successful createPaymentRule(ruleId, ...) sent by c stores under
\* ruleId a rule with isActive true, creator c, timestamp the block's time,
\* the imported handle and the supplied publicThreshold, recipient and
\* description; marks the handle as operable by the contract and as publicly
\* decryptable; appends ruleId once at the end of ruleIds; and emits exactly
\* one event, PaymentRuleCreated(ruleId, c).
C14_CreatePaymentRuleEffects ==
    [][(Executes("createPaymentRule") /\ last'.reason = Ok) =>
          /\ paymentRules'[Arg.ruleId] =
                [ruleId |-> Arg.ruleId,
                 encryptedThreshold |-> FromExternal(Arg.ext),
                 publicThreshold |-> Arg.publicThreshold,
                 recipient |-> Arg.recipient,
                 description |-> Arg.description,
                 creator |-> last'.sender,
                 timestamp |-> now,
                 isActive |-> TRUE]
          /\ FromExternal(Arg.ext) \in acl'.allowedThis
          /\ FromExternal(Arg.ext) \in acl'.publiclyDecryptable
          /\ ruleIds' = Append(ruleIds, Arg.ruleId)
          /\ events' = Append(events, PaymentRuleCreated(Arg.ruleId, last'.sender))]_vars

\* A createPaymentRule sent in the second block has just succeeded: the rule
\* is stored with that time and its sender, listed last, its event is the
\* newest and its handle carries both permissions.
C14_Witness ==
    /\ last.op = "createPaymentRule"
    /\ last.reason = Ok
    /\ now = 2
    /\ paymentRules[last.args.ruleId].timestamp = 2
    /\ paymentRules[last.args.ruleId].creator = last.sender
    /\ paymentRules[last.args.ruleId].isActive
    /\ ruleIds[Len(ruleIds)] = last.args.ruleId
    /\ events[Len(events)] = PaymentRuleCreated(last.args.ruleId, last.sender)
    /\ paymentRules[last.args.ruleId].encryptedThreshold
          \in (acl.allowedThis \cap acl.publiclyDecryptable)

---------------------------------------------------------------------------
\* C15: a successful createSubscription(subscriptionId, ruleId, subscriber)
\* stores under subscriptionId a subscription with isActive true and
\* lastPaymentTimestamp 0 that references ruleId and names the subscriber;
\* appends subscriptionId once to the index of ruleId, to no other index, and
\* once to subscriptionIds; emits exactly one event,
\* SubscriptionCreated(subscriptionId, ruleId, subscriber); and changes no rule.
C15_CreateSubscriptionEffects ==
    [][(Executes("createSubscription") /\ last'.reason = Ok) =>
          /\ subscriptions'[Arg.subscriptionId] =
                [subscriptionId |-> Arg.subscriptionId,
                 ruleId |-> Arg.ruleId,
                 subscriber |-> Arg.subscriber,
                 lastPaymentTimestamp |-> 0,
                 isActive |-> TRUE]
          /\ \A r \in RuleIdStrings :
                ruleSubscriptions'[r] =
                   IF r = Arg.ruleId
                   THEN Append(ruleSubscriptions[r], Arg.subscriptionId)
                   ELSE ruleSubscriptions[r]
          /\ subscriptionIds' = Append(subscriptionIds, Arg.subscriptionId)
          /\ events' = Append(events,
                SubscriptionCreated(Arg.subscriptionId, Arg.ruleId, Arg.subscriber))
          /\ UNCHANGED <<paymentRules, ruleIds>>]_vars

\* A createSubscription has just succeeded: the subscription is stored
\* active and unpaid, it is the last entry of its rule's index and of
\* subscriptionIds, and its event is the newest.
C15_Witness ==
    /\ last.op = "createSubscription"
    /\ last.reason = Ok
    /\ subscriptions[last.args.subscriptionId].isActive
    /\ subscriptions[last.args.subscriptionId].lastPaymentTimestamp = 0
    /\ subscriptions[last.args.subscriptionId].ruleId = last.args.ruleId
    /\ ruleSubscriptions[last.args.ruleId][Len(ruleSubscriptions[last.args.ruleId])]
          = last.args.subscriptionId
    /\ subscriptionIds[Len(subscriptionIds)] = last.args.subscriptionId
    /\ events[Len(events)] =
          SubscriptionCreated(last.args.subscriptionId, last.args.ruleId,
                              last.args.subscriber)
    /\ paymentRules = RulesBefore

---------------------------------------------------------------------------
\* The log holds a PaymentExecuted event of this subscription.
Paid(subscriptionId) ==
    \E i \in 1..Len(events) :
        /\ events[i].name = "PaymentExecuted"
        /\ events[i].subscriptionId = subscriptionId

\* C16: a subscription's lastPaymentTimestamp is 0 exactly while no
\* executePayment has succeeded for it; it is written only by a successful
\* executePayment for that subscription, which sets it to the block's time and
\* emits PaymentExecuted(subscriptionId, the subscription's ruleId, that
\* rule's recipient); no other operation and no failed executePayment
\* changes it.
C16_LastPaymentTimestamp ==
    [][/\ \A id \in SubscriptionIdStrings :
            /\ (subscriptions[id].lastPaymentTimestamp = 0) <=> ~Paid(id)
            /\ subscriptions'[id].lastPaymentTimestamp
                  # subscriptions[id].lastPaymentTimestamp =>
                   /\ Executes("executePayment")
                   /\ last'.reason = Ok
                   /\ Arg.subscriptionId = id
       /\ (Executes("executePayment") /\ last'.reason = Ok) =>
            /\ subscriptions'[Arg.subscriptionId].lastPaymentTimestamp = now
            /\ events' = Append(events,
                   PaymentExecuted(Arg.subscriptionId,
                                   subscriptions[Arg.subscriptionId].ruleId,
                                   RuleOf(Arg.subscriptionId).recipient))]_vars

\* The second successful executePayment of a subscription, in a later block
\* than the first, has just replaced the first payment's time by its own.
C16_Witness ==
    /\ last.op = "executePayment"
    /\ last.reason = Ok
    /\ SubscriptionsBefore[last.args.subscriptionId].lastPaymentTimestamp = 1
    /\ now = 2
    /\ subscriptions[last.args.subscriptionId].lastPaymentTimestamp = 2
    /\ NumPayments(events) = 2

---------------------------------------------------------------------------
\* C17: disableRule sent by the creator of a rule that is already inactive
\* succeeds and changes nothing, so the state after two consecutive
\* disableRule calls is the state after one.
C17_DisableRuleIdempotent ==
    [][(/\ Executes("disableRule")
        /\ RuleDisabled(Arg.ruleId)
        /\ last'.sender = paymentRules[Arg.ruleId].creator) =>
           (last'.reason = Ok /\ UNCHANGED storage)]_vars

\* The creator's disableRule has just succeeded on a rule that was already
\* inactive, and the storage is the one the call found.
C17_Witness ==
    /\ last.op = "disableRule"
    /\ last.reason = Ok
    /\ last.sender = paymentRules[last.args.ruleId].creator
    /\ RulesBefore[last.args.ruleId].ruleId = last.args.ruleId
    /\ ~RulesBefore[last.args.ruleId].isActive
    /\ storage = last.before

---------------------------------------------------------------------------
\* C18 (as stated): the ledger commits a disableRule(r) of r's creator and an
\* executePayment(s) on an active subscription s of r, with a valid proof and
\* a value meeting the threshold, in one of two orders. Committed after the
\* disableRule, executePayment fails InactiveEntity and leaves
\* lastPaymentTimestamp alone; committed before it, executePayment records the
\* payment, and the creator's disableRule then makes the rule inactive. No
\* payment is recorded for a rule that is inactive when the payment commits.
C18_CommitOrderDecides ==
    [][/\ (/\ Executes("executePayment")
           /\ SubscriptionCreated_(Arg.subscriptionId)
           /\ subscriptions[Arg.subscriptionId].isActive
           /\ ProofAccepted(Arg)
           /\ Geq(Arg.abiEncodedClearValue, RuleOf(Arg.subscriptionId).publicThreshold)) =>
              IF RuleDisabled(subscriptions[Arg.subscriptionId].ruleId)
              THEN /\ last'.reason \in InactiveEntity
                   /\ UNCHANGED subscriptions
              ELSE /\ last'.reason = Ok
                   /\ PaymentRecorded
       /\ (/\ Executes("disableRule")
           /\ RuleCreated(Arg.ruleId)
           /\ last'.sender = paymentRules[Arg.ruleId].creator
           /\ \E s \in SubscriptionIdStrings :
                 /\ SubscriptionCreated_(s)
                 /\ subscriptions[s].isActive
                 /\ subscriptions[s].ruleId = Arg.ruleId) =>
              /\ last'.reason = Ok
              /\ ~paymentRules'[Arg.ruleId].isActive
       /\ PaymentRecorded =>
              /\ Executes("executePayment")
              /\ RuleOf(Arg.subscriptionId).isActive]_vars

---------------------------------------------------------------------------
\* C19 (as stated): the subscriber stored by a successful createSubscription
\* is the account that sent the call.
C19_SubscriberIsCaller ==
    [][(Executes("createSubscription") /\ last'.reason = Ok) =>
           subscriptions'[Arg.subscriptionId].subscriber = last'.sender]_vars

\* C19 (amended): the subscriber stored by a successful createSubscription is
\* the subscriber argument of the call, whichever account sent it, and the
\* stored subscriber is the only account whose disableSubscription succeeds;
\* every sender refused as Unauthorized is another account.
C19_SubscriberIsArgument ==
    [][/\ (Executes("createSubscription") /\ last'.reason = Ok) =>
              subscriptions'[Arg.subscriptionId].subscriber = Arg.subscriber
       /\ (Executes("disableSubscription") /\ last'.reason \in Unauthorized) =>
              last'.sender # subscriptions[Arg.subscriptionId].subscriber
       /\ (Executes("disableSubscription") /\ last'.reason = Ok) =>
              last'.sender = subscriptions[Arg.subscriptionId].subscriber]_vars

\* A createSubscription sent by one account has just made another account
\* the subscriber.
C19_Witness ==
    /\ last.op = "createSubscription"
    /\ last.reason = Ok
    /\ last.args.subscriber # last.sender
    /\ subscriptions[last.args.subscriptionId].subscriber = last.args.subscriber
    /\ events[Len(events)].subscriber # last.sender

---------------------------------------------------------------------------
\* C20 (as stated): executePayment reports the first failing check in the
\* order subscription absent (NotFound), subscription inactive
\* (InactiveEntity), rule inactive (InactiveEntity), proof rejected
\* (InvalidProof), value below threshold (ThresholdNotMet); the verifier is
\* not invoked for an absent or inactive subscription or an inactive rule, and
\* ThresholdNotMet is not reported for a value whose proof was not accepted.
C20_CheckOrder ==
    [][Executes("executePayment") =>
          /\ last'.reason \in
                (IF ~SubscriptionCreated_(Arg.subscriptionId) THEN NotFound
                 ELSE IF ~subscriptions[Arg.subscriptionId].isActive THEN InactiveEntity
                 ELSE IF ~RuleOf(Arg.subscriptionId).isActive THEN InactiveEntity
                 ELSE IF ~ProofAccepted(Arg) THEN InvalidProof
                 ELSE IF ~Geq(Arg.abiEncodedClearValue,
                              RuleOf(Arg.subscriptionId).publicThreshold)
                 THEN ThresholdNotMet
                 ELSE {Ok})
          /\ last'.verifierCalled =>
                /\ SubscriptionCreated_(Arg.subscriptionId)
                /\ subscriptions[Arg.subscriptionId].isActive
                /\ RuleOf(Arg.subscriptionId).isActive
          /\ last'.reason \in ThresholdNotMet => ProofAccepted(Arg)]_vars

---------------------------------------------------------------------------
\* The transaction just executed is executePayment(s, v, p).
ExecutedPayment(s, v, p) ==
    /\ last.op = "executePayment"
    /\ last.args = [subscriptionId |-> s, abiEncodedClearValue |-> v,
                    decryptionProof |-> p]

\* C21: after a successful executePayment(s, v, p), every further
\* executePayment(s, v, p), in the same block or a later one, that finds the
\* subscription and its rule still active succeeds and appends another
\* PaymentExecuted event: neither the proof already used nor the stored
\* lastPaymentTimestamp makes it fail.
C21_NoReplayProtection ==
    \A s \in SubscriptionIdStrings, v \in ClearEncodings, p \in DecryptionProofs :
        []((ExecutedPayment(s, v, p) /\ last.reason = Ok) =>
             []((/\ ExecutedPayment(s, v, p)
                 /\ SubscriptionsBefore[s].isActive
                 /\ RulesBefore[SubscriptionsBefore[s].ruleId].isActive) =>
                    /\ last.reason = Ok
                    /\ events = Append(last.before[6],
                          PaymentExecuted(s, subscriptions[s].ruleId,
                                          RuleOf(s).recipient))))

\* An executePayment has just succeeded for a subscription already paid in
\* this very block, with the proof and value of that payment's rule handle:
\* the log holds two PaymentExecuted events of the subscription.
C21_Witness ==
    /\ last.op = "executePayment"
    /\ last.reason = Ok
    /\ SubscriptionsBefore[last.args.subscriptionId].lastPaymentTimestamp = now
    /\ Len(events) >= 2
    /\ events[Len(events)] = events[Len(events) - 1]
    /\ events[Len(events)].name = "PaymentExecuted"

---------------------------------------------------------------------------
\* C22 (as stated): the rule-to-subscriptions index agrees with the
\* subscription records: the id of a created subscription is in the index of
\* rule r exactly when the stored subscription references r, and no other id
\* is in any index; each created subscription's id is in the index of exactly
\* one rule, exactly once there, and exactly once in subscriptionIds.
C22_IndexConsistent ==
    \A s \in SubscriptionIdStrings :
        /\ \A r \in RuleIdStrings :
              (s \in Range(ruleSubscriptions[r])) <=>
                  (SubscriptionCreated_(s) /\ subscriptions[s].ruleId = r)
        /\ SubscriptionCreated_(s) =>
              /\ Cardinality({r \in RuleIdStrings :
                                 s \in Range(ruleSubscriptions[r])}) = 1
              /\ \A r \in RuleIdStrings : Count(ruleSubscriptions[r], s) <= 1
              /\ Count(subscriptionIds, s) = 1

---------------------------------------------------------------------------
\* C23: after a successful disableRule(r) the storage is the storage the call
\* found with isActive of rule r set to false: every subscription record, the
\* subscriptions of r included, every other rule, both enumeration lists, the
\* index, the event log and the handle permissions are as they were. After a
\* successful disableSubscription(s) the storage is the storage the call found
\* with isActive of subscription s set to false.
C23_DisableFrame ==
    /\ (last.op = "disableRule" /\ last.reason = Ok) =>
          storage = [last.before EXCEPT ![1][last.args.ruleId].isActive = FALSE]
    /\ (last.op = "disableSubscription" /\ last.reason = Ok) =>
          storage = [last.before EXCEPT ![2][last.args.subscriptionId].isActive = FALSE]

\* disableRule has just made inactive a rule that has an active, paid
\* subscription, which is still active and keeps the time of its payment.
C23_Witness ==
    /\ last.op = "disableRule"
    /\ last.reason = Ok
    /\ RulesBefore[last.args.ruleId].isActive
    /\ ~paymentRules[last.args.ruleId].isActive
    /\ \E s \in SubscriptionIdStrings :
          /\ subscriptions[s].ruleId = last.args.ruleId
          /\ subscriptions[s].isActive
          /\ subscriptions[s].lastPaymentTimestamp # 0
          /\ subscriptions[s] = SubscriptionsBefore[s]

---------------------------------------------------------------------------
\* C24: once disableSubscription has succeeded for a subscription, the
\* subscription is inactive in every later state, whatever transactions
\* follow, and every later executePayment for it fails InactiveEntity and
\* leaves the storage as it found it.
C24_DisabledSubscriptionBlocks ==
    \A s \in SubscriptionIdStrings :
        []((/\ last.op = "disableSubscription"
            /\ last.args.subscriptionId = s
            /\ last.reason = Ok) =>
              [](/\ ~subscriptions[s].isActive
                 /\ (last.op = "executePayment" /\ last.args.subscriptionId = s) =>
                       /\ last.reason \in InactiveEntity
                       /\ storage = last.before))

\* An executePayment with an accepted proof and a value meeting the threshold
\* has just failed on a disabled subscription whose rule is active.
C24_Witness ==
    /\ last.op = "executePayment"
    /\ last.reason = ErrSubscriptionInactive
    /\ SubscriptionCreated_(last.args.subscriptionId)
    /\ ~subscriptions[last.args.subscriptionId].isActive
    /\ RuleOf(last.args.subscriptionId).isActive
    /\ ProofAccepted(last.args)
    /\ Geq(last.args.abiEncodedClearValue,
           RuleOf(last.args.subscriptionId).publicThreshold)

---------------------------------------------------------------------------
\* C25: in every reachable state the ruleId of every created subscription is
\* the id of a created rule, and the record stored under it carries that id:
\* it is not the default record of a key never written. So whenever
\* executePayment has got past its subscription checks and read the rule, the
\* record it read was a stored rule.
C25_RuleAlwaysFound ==
    /\ \A s \in SubscriptionIdStrings : SubscriptionCreated_(s) =>
          /\ RuleCreated(subscriptions[s].ruleId)
          /\ RuleOf(s) # DefaultPaymentRule
          /\ RuleOf(s).ruleId = subscriptions[s].ruleId
    /\ (/\ last.op = "executePayment"
        /\ last.reason \notin {ErrNoSubscription, ErrSubscriptionInactive}) =>
          /\ RulesBefore[SubscriptionsBefore[last.args.subscriptionId].ruleId]
                # DefaultPaymentRule
          /\ RulesBefore[SubscriptionsBefore[last.args.subscriptionId].ruleId].ruleId
                = SubscriptionsBefore[last.args.subscriptionId].ruleId

\* An executePayment has just read the rule of its subscription, a rule
\* disabled after the subscription was created, and found the stored record.
C25_Witness ==
    /\ last.op = "executePayment"
    /\ last.reason = ErrRuleInactive
    /\ RuleOf(last.args.subscriptionId).ruleId =
          subscriptions[last.args.subscriptionId].ruleId
    /\ RuleOf(last.args.subscriptionId).creator \in Accounts
    /\ RuleOf(last.args.subscriptionId).timestamp > 0

---------------------------------------------------------------------------
\* C26 (as stated): the verified value is a uint32 and publicThreshold a
\* uint256, compared without wraparound: no executePayment succeeds for a
\* subscription whose rule has a publicThreshold above 2^32 - 1, and every
\* executePayment on a created, active subscription of an active rule with
\* publicThreshold 0 and a proof the verifier accepts succeeds.
C26_WidthComparison ==
    last.op = "executePayment" =>
        LET s == last.args.subscriptionId
            rule == RulesBefore[SubscriptionsBefore[s].ruleId]
        IN  /\ ~Geq(Uint32Max, rule.publicThreshold) => last.reason # Ok
            /\ (/\ s \in Range(last.before[5])
                /\ SubscriptionsBefore[s].isActive
                /\ rule.isActive
                /\ rule.publicThreshold = Zero
                /\ CheckSignatures(<<ToBytes32(rule.encryptedThreshold)>>,
                                   last.args.abiEncodedClearValue,
                                   last.args.decryptionProof)) =>
                   last.reason = Ok

---------------------------------------------------------------------------
\* The model follows the contract while its event log holds at most limit
\* events.
LogWithin(limit) == Len(events') <= limit

Next ==
    \/ NewBlock /\ UNCHANGED ui
    \/ Return /\ UNCHANGED ui
    \/ \E sender \in Accounts, ruleId \in RuleIdStrings, in \in RuleInputs :
          /\ createPaymentRule(sender, ruleId, in.ext, in.publicThreshold,
                               in.recipient, in.description)
          /\ LogWithin(MaxEvents)
          /\ UNCHANGED ui
    \/ \E sender \in Relayers, subscriptionId \in SubscriptionIdStrings,
          ruleId \in RuleIdStrings, subscriber \in Accounts :
          /\ createSubscription(sender, subscriptionId, ruleId, subscriber)
          /\ LogWithin(MaxEvents)
          /\ UNCHANGED ui
    \/ \E sender \in Relayers, subscriptionId \in SubscriptionIdStrings,
          abiEncodedClearValue \in ClearEncodings,
          decryptionProof \in DecryptionProofs :
          /\ executePayment(sender, subscriptionId, abiEncodedClearValue, decryptionProof)
          /\ LogWithin(MaxEvents)
          /\ UNCHANGED ui
    \/ \E sender \in Accounts, ruleId \in RuleIdStrings :
          disableRule(sender, ruleId) /\ UNCHANGED ui
    \/ \E sender \in Accounts, subscriptionId \in SubscriptionIdStrings :
          disableSubscription(sender, subscriptionId) /\ UNCHANGED ui

Spec == Init /\ [][Next]_vars

---------------------------------------------------------------------------
\* One creator and the rule "r1", with its subscriptions followed through
\* repeated payments.
RepeatRuleId == "r1"

NextRepeat ==
    \/ NewBlock /\ UNCHANGED ui
    \/ Return /\ UNCHANGED ui
    \/ \E sender \in Relayers, in \in RuleInputs :
          /\ createPaymentRule(sender, RepeatRuleId, in.ext, in.publicThreshold,
                               in.recipient, in.description)
          /\ LogWithin(MaxRepeatEvents)
          /\ UNCHANGED ui
    \/ \E sender \in Relayers, subscriptionId \in SubscriptionIdStrings,
          subscriber \in Accounts :
          /\ createSubscription(sender, subscriptionId, RepeatRuleId, subscriber)
          /\ LogWithin(MaxRepeatEvents)
          /\ UNCHANGED ui
    \/ \E sender \in Relayers, subscriptionId \in SubscriptionIdStrings,
          abiEncodedClearValue \in ClearEncodings,
          decryptionProof \in DecryptionProofs :
          /\ executePayment(sender, subscriptionId, abiEncodedClearValue, decryptionProof)
          /\ LogWithin(MaxRepeatEvents)
          /\ UNCHANGED ui
    \/ \E sender \in Accounts :
          disableRule(sender, RepeatRuleId) /\ UNCHANGED ui
    \/ \E sender \in Accounts, subscriptionId \in SubscriptionIdStrings :
          disableSubscription(sender, subscriptionId) /\ UNCHANGED ui

SpecRepeat == Init /\ [][NextRepeat]_vars

---------------------------------------------------------------------------
\* The rule "r1" created with a publicThreshold at either end of the range:
\* 0, and 2^32, the least value no uint32 reaches.
WidthThresholds == {Zero, Word(Limb, 0)}

WidthRuleInputs ==
    [ext : ExternalInputs, publicThreshold : WidthThresholds,
     recipient : Recipients, description : Descriptions]

\* The clear values a caller can claim: the two plaintexts, and 2^32 encoded
\* as a 32-byte word.
WidthClearEncodings == ClearEncodings \cup {Word(Limb, 0)}

NextWidth ==
    \/ NewBlock /\ UNCHANGED ui
    \/ Return /\ UNCHANGED ui
    \/ \E sender \in Relayers, in \in WidthRuleInputs :
          /\ createPaymentRule(sender, RepeatRuleId, in.ext, in.publicThreshold,
                               in.recipient, in.description)
          /\ LogWithin(MaxEvents)
          /\ UNCHANGED ui
    \/ \E sender \in Relayers, subscriptionId \in SubscriptionIdStrings,
          subscriber \in Relayers :
          /\ createSubscription(sender, subscriptionId, RepeatRuleId, subscriber)
          /\ LogWithin(MaxEvents)
          /\ UNCHANGED ui
    \/ \E sender \in Relayers, subscriptionId \in SubscriptionIdStrings,
          abiEncodedClearValue \in WidthClearEncodings,
          decryptionProof \in DecryptionProofs :
          /\ executePayment(sender, subscriptionId, abiEncodedClearValue, decryptionProof)
          /\ LogWithin(MaxEvents)
          /\ UNCHANGED ui
    \/ \E sender \in Relayers :
          disableRule(sender, RepeatRuleId) /\ UNCHANGED ui
    \/ \E sender \in Relayers, subscriptionId \in SubscriptionIdStrings :
          disableSubscription(sender, subscriptionId) /\ UNCHANGED ui

SpecWidth == Init /\ [][NextWidth]_vars

---------------------------------------------------------------------------
\* The web client (App.tsx): its handlers and the events around them. A
\* handler runs from the event that starts it to its first await, and from
\* the settling of an awaited promise to the next await or to its end,
\* without interleaving; between these runs the user and the timers act, and
\* the wallet and the hooks change what they report. ui.awaiting is the await
\* createPayment is suspended at and ui.closure the status a timer set by the
\* running createPayment will set: the transactionStatus of the render it was
\* started from, hidden; ui.calls is the bag of the running calls of
\* checkAvailability and decryptPayment, each with the status a timer of its
\* closure will set;
\* ui.timers holds the pending timers, oldest first, each as the status it
\* will set; ui.reloading says that window.location.reload() has been called
\* and the page has not been replaced yet: until it is, the page goes on as
\* before, its buttons and inputs included.

\* The client is followed while at most this many callbacks are outstanding:
\* pending timers and suspended handlers.
MaxPending == 2

\* showTransactionStatus run by a handler whose closure holds the given
\* transactionStatus: the status is shown and a timer is set.
showTransactionStatus(state, closure, status, message) ==
    [state EXCEPT !.transactionStatus = Shown(status, message),
                  !.timers = Append(@, Hidden(closure))]

\* The disabled attribute of the create button.
CreateButtonDisabled(isEncrypting) ==
    \/ ui.creatingPayment
    \/ isEncrypting
    \/ ui.newPaymentData.name = ""
    \/ ui.newPaymentData.amount = ""

\* createPayment is suspended at one of its awaits.
InCall == ui.awaiting \in Awaits

\* createPayment from the click on the create button, which is part of the
\* create modal, to its first await: isConnected says that useAccount reports
\* a connection and an address. The handler is taken for every wallet state,
\* so that its own connection check decides.
createPayment(isConnected, isEncrypting) ==
    /\ ui.showCreateModal
    /\ ~CreateButtonDisabled(isEncrypting)
    /\ ui' = IF ~isConnected
             THEN showTransactionStatus(ui, ui.transactionStatus,
                                        "error", MsgConnectWallet)
             ELSE showTransactionStatus(
                      [ui EXCEPT !.creatingPayment = TRUE,
                                 !.awaiting = "getContractWithSigner",
                                 !.closure = Hidden(ui.transactionStatus)],
                      ui.transactionStatus, "pending", MsgCreating)
    /\ UNCHANGED chain

\* The end of a createPayment call, after its finally block.
Finally(state) ==
    [state EXCEPT !.creatingPayment = FALSE,
                  !.awaiting = "none",
                  !.closure = TransactionStatusInitial]

\* createPayment with its catch block and no finally block.
CatchOnly(state, thrown) ==
    [(IF thrown = "unreadable"
      THEN state
      ELSE showTransactionStatus(state, state.closure, "error",
               IF thrown = "rejected" THEN MsgRejected ELSE MsgFailed))
        EXCEPT !.awaiting = "none", !.closure = TransactionStatusInitial]

\* The catch block and the finally block of createPayment, run on the state
\* the try block left. Reading e.message of an unreadable value throws inside
\* the catch block: no status is shown and only the finally block runs.
CatchFinally(state, thrown) ==
    IF thrown = "unreadable"
    THEN Finally(state)
    ELSE Finally(showTransactionStatus(state, state.closure, "error",
                     IF thrown = "rejected" THEN MsgRejected ELSE MsgFailed))

\* A sequence with an element put in at a position.
InsertAt(seq, i, x) == SubSeq(seq, 1, i - 1) \o <<x>> \o SubSeq(seq, i, Len(seq))

\* createPayment from an await that resolved to the next await, or through
\* the end of the try block, which calls window.location.reload(), and the
\* finally block.
\* The last run sets a timer of 2 seconds after one of 3 seconds: it comes due
\* before that one, at the given place among the pending timers.
Continue(place) ==
    CASE ui.awaiting = "getContractWithSigner" -> [ui EXCEPT !.awaiting = "getAddress"]
      [] ui.awaiting = "getAddress" -> [ui EXCEPT !.awaiting = "encrypt"]
      [] ui.awaiting = "encrypt" -> [ui EXCEPT !.awaiting = "createBusinessData"]
      [] ui.awaiting = "createBusinessData" ->
            [showTransactionStatus(ui, ui.closure, "pending", MsgWaiting)
                EXCEPT !.awaiting = "wait"]
      [] ui.awaiting = "wait" ->
            [Finally(showTransactionStatus(ui, ui.closure, "success", MsgCreated))
                EXCEPT !.timers = InsertAt(@, place, Hidden(ui.closure)),
                       !.showCreateModal = FALSE,
                       !.newPaymentData = NewPaymentDataInitial,
                       !.reloading = TRUE]

\* The promise createPayment awaits settles and createPayment runs on: to
\* its next await, to its end, or into its catch block, which a throw of
\* tx.wait() enters after "Waiting for confirmation..." was shown (no
\* contract is the error "Contract not available").
resume(result, place) ==
    /\ InCall
    /\ result \in AwaitResults(ui.awaiting)
    /\ place \in 1..(Len(ui.timers) + 1)
    /\ (result = "resolved" /\ ui.awaiting = "wait") \/ place = 1
    /\ ui' = CASE result = "resolved" -> Continue(place)
               [] result \in {"waitRejected", "waitFailed", "waitUnreadable"} ->
                     CatchFinally(showTransactionStatus(ui, ui.closure,
                                                        "pending", MsgWaiting),
                                  Caught(result))
               [] OTHER -> CatchFinally(ui, Caught(result))
    /\ UNCHANGED chain

\* The reload called by createPayment takes place: the component is mounted
\* anew, and the running calls and pending timers of the old page are gone.
\* Between the call of reload and this the old page goes on: its timers fire,
\* its running calls resume and the user may start new ones.
reload ==
    /\ ui.reloading
    /\ ui' = UiInitial
    /\ UNCHANGED chain

\* checkAvailability from the click on "Check Status" to its first await. The
\* handler reads nothing of the wallet.
checkAvailability ==
    LET call == [handler |-> "checkAvailability",
                 closure |-> Hidden(ui.transactionStatus)] IN
    /\ ui' = [ui EXCEPT !.calls = @ (+) SetToBag({call})]
    /\ UNCHANGED chain

\* A checkAvailability call ends: it shows "Contract is available" when the
\* contract answered true, and nothing otherwise.
resumeCheckAvailability(call, available) ==
    /\ BagIn(call, ui.calls)
    /\ call.handler = "checkAvailability"
    /\ ui' = IF available
             THEN showTransactionStatus(
                      [ui EXCEPT !.calls = @ (-) SetToBag({call})],
                      call.closure, "success", MsgAvailable)
             ELSE [ui EXCEPT !.calls = @ (-) SetToBag({call})]
    /\ UNCHANGED chain

\* decryptPayment from the click on "Verify Decryption" to its first await,
\* for every wallet state. The detail modal has the button for a selected
\* payment that is not verified, and disables it while useDecrypt reports
\* isDecrypting.
decryptPayment(isConnected, isDecrypting, isVerified) ==
    LET call == [handler |-> "decryptPayment",
                 closure |-> Hidden(ui.transactionStatus)] IN
    /\ ui.selectedPayment # NoPayment /\ ~isVerified
    /\ ~isDecrypting
    /\ ui' = IF ~isConnected
             THEN showTransactionStatus(ui, ui.transactionStatus,
                                        "error", MsgConnectWallet)
             ELSE [ui EXCEPT !.calls = @ (+) SetToBag({call})]
    /\ UNCHANGED chain

\* What the try block of a decryptPayment call showed before it ended.
DecryptTry(state, closure, shown) ==
    CASE shown = "none" -> state
      [] shown = "alreadyVerified" ->
            showTransactionStatus(state, closure, "success", MsgAlreadyVerified)
      [] shown = "verifying" ->
            showTransactionStatus(state, closure, "pending", MsgVerifying)
      [] shown = "verified" ->
            showTransactionStatus(
                showTransactionStatus(state, closure, "pending", MsgVerifying),
                closure, "success", MsgVerified)

\* The catch block of decryptPayment, which a throw of the try block enters.
\* Reading e.message of an unreadable value throws inside the catch block and
\* nothing is shown.
DecryptCatch(state, closure, end) ==
    CASE end = "alreadyVerified" ->
            showTransactionStatus(state, closure, "success", MsgAlreadyVerified)
      [] end = "failed" ->
            showTransactionStatus(state, closure, "error", MsgDecryptionFailed)
      [] OTHER -> state

\* A decryptPayment call ends: its try block has shown what it came to show,
\* and returns or throws into the catch block. Number(...) of the returned
\* value may throw after the status before it was shown.
resumeDecryptPayment(call, result) ==
    LET rest == [ui EXCEPT !.calls = @ (-) SetToBag({call})] IN
    /\ BagIn(call, ui.calls)
    /\ call.handler = "decryptPayment"
    /\ ui' = DecryptCatch(DecryptTry(rest, call.closure, result.shown),
                          call.closure, result.end)
    /\ UNCHANGED chain

\* The buttons that open the create modal and those that close it.
setShowCreateModal(show) ==
    /\ ui.showCreateModal # show
    /\ ui' = [ui EXCEPT !.showCreateModal = show]
    /\ UNCHANGED chain

\* An input of the form of the create modal changes: its onChange handler
\* writes the one field.
setNewPaymentData(field, value) ==
    /\ ui.showCreateModal
    /\ value \in FieldValues(field)
    /\ ui.newPaymentData[field] # value
    /\ ui' = [ui EXCEPT !.newPaymentData[field] = value]
    /\ UNCHANGED chain

\* A click on a payment card selects the payment and opens the detail modal;
\* the close button of the modal selects none.
setSelectedPayment(payment) ==
    /\ ui.selectedPayment # payment
    /\ ui' = [ui EXCEPT !.selectedPayment = payment]
    /\ UNCHANGED chain

\* The oldest pending timer fires, whether or not a status is visible.
hideTransactionStatus ==
    /\ ui.timers # <<>>
    /\ ui' = [ui EXCEPT !.transactionStatus = Head(ui.timers),
                        !.timers = Tail(ui.timers)]
    /\ UNCHANGED chain

\* The outstanding callbacks: the pending timers, the running calls of
\* checkAvailability and decryptPayment, and createPayment when suspended.
Pending(state) ==
    Len(state.timers) + BagCardinality(state.calls)
        + (IF state.awaiting \in Awaits THEN 1 ELSE 0)

\* The model follows the client while no more callbacks are outstanding than
\* the limit.
ClientWithin(limit) == Pending(ui') <= limit

\* The promise createPayment awaits settles, in any of the ways it can.
Settled ==
    \E result \in UNION {AwaitResults(awaited) : awaited \in Awaits},
       place \in 1..MaxPending :
       resume(result, place) /\ ClientWithin(MaxPending)

NextFrontend ==
    \/ \E isConnected \in BOOLEAN, isEncrypting \in BOOLEAN :
          createPayment(isConnected, isEncrypting) /\ ClientWithin(MaxPending)
    \/ Settled
    \/ reload
    \/ checkAvailability /\ ClientWithin(MaxPending)
    \/ \E call \in BagToSet(ui.calls), available \in BOOLEAN :
          resumeCheckAvailability(call, available) /\ ClientWithin(MaxPending)
    \/ \E isConnected \in BOOLEAN, isDecrypting \in BOOLEAN, isVerified \in BOOLEAN :
          decryptPayment(isConnected, isDecrypting, isVerified)
              /\ ClientWithin(MaxPending)
    \/ \E call \in BagToSet(ui.calls), result \in DecryptResults :
          resumeDecryptPayment(call, result) /\ ClientWithin(MaxPending)
    \/ \E show \in BOOLEAN : setShowCreateModal(show)
    \/ \E field \in NewPaymentDataFields :
          \E value \in FieldValues(field) : setNewPaymentData(field, value)
    \/ \E payment \in SelectedPaymentValues : setSelectedPayment(payment)
    \/ hideTransactionStatus

\* A reload that was called takes place, and a timer that was set fires.
\* Nothing in the client makes a promise it awaits settle.
SpecFrontend ==
    /\ Init /\ [][NextFrontend]_vars
    /\ WF_vars(reload)
    /\ WF_vars(hideTransactionStatus)

\* C27 (as stated): createPayment called with no wallet connected starts no
\* call, leaves the flag false and shows the error "Please connect wallet
\* first"; called with a wallet connected it starts a call. creatingPayment
\* is true exactly while createPayment is suspended at one of its awaits, and
\* a call ends only by running on from a settled promise or with the page.
\* Only the run of createPayment that ends the call in success closes the
\* create modal and resets the form; no other run of it changes them. The
\* create button is never left disabled for good: a state where the flag is
\* true always leads to one where it is false.
C27_CreatingPaymentFlag ==
    /\ [](ui.creatingPayment <=> InCall)
    /\ [][/\ \A isEncrypting \in BOOLEAN :
                 /\ createPayment(FALSE, isEncrypting) =>
                        /\ ui'.transactionStatus = Shown("error", MsgConnectWallet)
                        /\ ~ui'.creatingPayment
                        /\ ui'.awaiting = "none"
                 /\ createPayment(TRUE, isEncrypting) =>
                        /\ ui'.transactionStatus = Shown("pending", MsgCreating)
                        /\ ui'.creatingPayment
          /\ \A isConnected \in BOOLEAN, isEncrypting \in BOOLEAN :
                 createPayment(isConnected, isEncrypting) =>
                        /\ ui'.showCreateModal = ui.showCreateModal
                        /\ ui'.newPaymentData = ui.newPaymentData
          /\ \A result \in UNION {AwaitResults(awaited) : awaited \in Awaits},
                place \in 1..MaxPending :
                 resume(result, place) =>
                     IF result = "resolved" /\ ui.awaiting = "wait"
                     THEN /\ ui'.transactionStatus = Shown("success", MsgCreated)
                          /\ ~ui'.creatingPayment
                          /\ ~ui'.showCreateModal
                          /\ ui'.newPaymentData = NewPaymentDataInitial
                          /\ ui'.reloading
                     ELSE /\ ui'.showCreateModal = ui.showCreateModal
                          /\ ui'.newPaymentData = ui.newPaymentData
          /\ (InCall /\ ~InCall') => (Settled \/ reload)]_vars
    /\ ui.creatingPayment ~> ~ui.creatingPayment

\* C27 (amended): the same, except that the flag is sure to become false
\* again only if the promises createPayment awaits settle: a call whose
\* awaited promise never settles leaves the flag true and the create button
\* disabled for as long as the page lives.
C27_CreatingPaymentFlagAmended ==
    /\ [](ui.creatingPayment <=> InCall)
    /\ [][/\ \A isEncrypting \in BOOLEAN :
                 /\ createPayment(FALSE, isEncrypting) =>
                        /\ ui'.transactionStatus = Shown("error", MsgConnectWallet)
                        /\ ~ui'.creatingPayment
                        /\ ui'.awaiting = "none"
                 /\ createPayment(TRUE, isEncrypting) =>
                        /\ ui'.transactionStatus = Shown("pending", MsgCreating)
                        /\ ui'.creatingPayment
          /\ \A isConnected \in BOOLEAN, isEncrypting \in BOOLEAN :
                 createPayment(isConnected, isEncrypting) =>
                        /\ ui'.showCreateModal = ui.showCreateModal
                        /\ ui'.newPaymentData = ui.newPaymentData
          /\ \A result \in UNION {AwaitResults(awaited) : awaited \in Awaits},
                place \in 1..MaxPending :
                 resume(result, place) =>
                     IF result = "resolved" /\ ui.awaiting = "wait"
                     THEN /\ ui'.transactionStatus = Shown("success", MsgCreated)
                          /\ ~ui'.creatingPayment
                          /\ ~ui'.showCreateModal
                          /\ ui'.newPaymentData = NewPaymentDataInitial
                          /\ ui'.reloading
                     ELSE /\ ui'.showCreateModal = ui.showCreateModal
                          /\ ui'.newPaymentData = ui.newPaymentData
          /\ (InCall /\ ~InCall') => (Settled \/ reload)]_vars
    /\ WF_vars(Settled) => (ui.creatingPayment ~> ~ui.creatingPayment)

\* A createPayment call has just ended in a rejection: the error is shown, the
\* flag is false again, the modal is still open and the form still filled, so
\* the create button is enabled.
C27_Witness ==
    /\ ui.awaiting = "none"
    /\ ui.transactionStatus = Shown("error", MsgRejected)
    /\ ~ui.creatingPayment
    /\ ui.showCreateModal
    /\ ~CreateButtonDisabled(FALSE)

====
